---- MODULE Spec2Model ----
(***************************************************************************)
(* A model of the confidis belief engine (src/src/graph.rs): the source    *)
(* and question tables, the remove-effect / recompute / add-effect update  *)
(* protocol and the command dispatcher Graph::execute_command.             *)
(*                                                                         *)
(* Numbers.  An f64 is modelled as a pair <<n, d>>: an exact rational n/d  *)
(* in lowest terms with d > 0, or one of the three IEEE-754 special values *)
(* +inf = <<1,0>>, -inf = <<-1,0>>, NaN = <<0,0>>.  Rounding of finite     *)
(* results is not modelled (the arithmetic is exact) and zero is unsigned. *)
(* The natural logarithm is evaluated at the binary exponent of its        *)
(* argument (floor(log2 x), in units of ln 2), so that f64::log, which is  *)
(* ln(x) / ln(base), stays rational.                                       *)
(*                                                                         *)
(* The environment.  budget is the number of commands the client may still *)
(* send and asked the set of question names it uses; the engine reads      *)
(* neither.  last is the command executed by the latest step and response  *)
(* what execute_command returned for it.                                   *)
(***************************************************************************)
EXTENDS Integers, Sequences, FiniteSets, TLC

VARIABLES sources, questions, default_source_quality, initial_source_strength,
          maximum_strength, log_weight_factor, quality_of_believed_sources,
          equalifier, last, response, budget, asked

vars == <<sources, questions, default_source_quality, initial_source_strength,
          maximum_strength, log_weight_factor, quality_of_believed_sources,
          equalifier, last, response, budget, asked>>

tunables == <<default_source_quality, initial_source_strength, maximum_strength,
              log_weight_factor, quality_of_believed_sources>>

(***************************************************************************)
(* Bounds of the model.                                                    *)
(***************************************************************************)
MaxCmds == 5
MaxCfgCmds == 4
MaxAllCmds == 4
MaxMajorityCmds == 4
MaxVecCmds == 3
MaxAccountingCmds == 4
MaxLocalityCmds == 4
MaxLeaveOneOutCmds == 4
\* numerators and denominators are kept within this magnitude
MaxMagnitude == 1000000000

SourceNames == {"s1", "s2"}
Contents == {"1", "2"}

(***************************************************************************)
(* f64 arithmetic.                                                         *)
(***************************************************************************)
NaN == <<0, 0>>
PInf == <<1, 0>>
NInf == <<-1, 0>>
\* a value whose numerator or denominator leaves the range of the model
Ovf == <<0, -1>>

Abs(i) == IF i < 0 THEN -i ELSE i
Sgn(i) == IF i < 0 THEN -1 ELSE IF i > 0 THEN 1 ELSE 0

RECURSIVE Gcd(_, _)
Gcd(a, b) == IF b = 0 THEN a ELSE Gcd(b, a % b)

\* the rational n/d (d # 0) in lowest terms with a positive denominator
NormBy(n, d, g) == <<Sgn(d) * (n \div g), Abs(d) \div g>>
Norm(n, d) == NormBy(n, d, Gcd(Abs(n), Abs(d)))

Rat(n, d) == Norm(n, d)
Zero == <<0, 1>>
One == <<1, 1>>

IsNaN(x) == x = NaN
IsOvf(x) == x[2] < 0
IsFin(x) == x[2] > 0
IsInf(x) == x[2] = 0 /\ x[1] # 0

\* the product a * b stays within the range of the model
Fits(a, b) == a = 0 \/ b = 0 \/ Abs(a) <= MaxMagnitude \div Abs(b)

\* n1/d1 * n2/d2 with the cross factors already cancelled
MulFin(n1, d1, n2, d2) ==
    IF Fits(n1, n2) /\ Fits(d1, d2) THEN Norm(n1 * n2, d1 * d2) ELSE Ovf

\* x[1]/(b*g) + y[1]/(a*g)
AddFin(x, y, a, b) ==
    IF Fits(x[1], a) /\ Fits(y[1], b) /\ Fits(b, y[2])
    THEN Norm(x[1] * a + y[1] * b, b * y[2])
    ELSE Ovf

AddFinBy(x, y, g) == AddFin(x, y, y[2] \div g, x[2] \div g)

MulFinBy(x, y, g1, g2) == MulFin(x[1] \div g1, x[2] \div g2, y[1] \div g2, y[2] \div g1)

FNeg(x) == <<-x[1], x[2]>>

FAdd(x, y) ==
    IF IsOvf(x) \/ IsOvf(y) THEN Ovf
    ELSE IF IsNaN(x) \/ IsNaN(y) THEN NaN
    ELSE IF IsFin(x) /\ IsFin(y) THEN AddFinBy(x, y, Gcd(x[2], y[2]))
    ELSE IF IsInf(x) /\ IsInf(y) THEN (IF x = y THEN x ELSE NaN)
    ELSE IF IsInf(x) THEN x ELSE y

FSub(x, y) == FAdd(x, FNeg(y))

FMul(x, y) ==
    IF IsOvf(x) \/ IsOvf(y) THEN Ovf
    ELSE IF IsNaN(x) \/ IsNaN(y) THEN NaN
    ELSE IF IsFin(x) /\ IsFin(y) THEN
        IF x[1] = 0 \/ y[1] = 0 THEN Zero
        ELSE MulFinBy(x, y, Gcd(Abs(x[1]), y[2]), Gcd(Abs(y[1]), x[2]))
    ELSE IF Sgn(x[1]) * Sgn(y[1]) = 0 THEN NaN
    ELSE <<Sgn(x[1]) * Sgn(y[1]), 0>>

\* 1 / y for a finite y # 0
Recip(y) == <<Sgn(y[1]) * y[2], Abs(y[1])>>

FDiv(x, y) ==
    IF IsOvf(x) \/ IsOvf(y) THEN Ovf
    ELSE IF IsNaN(x) \/ IsNaN(y) THEN NaN
    ELSE IF IsInf(x) /\ IsInf(y) THEN NaN
    ELSE IF IsInf(x) THEN <<x[1] * (IF y[1] < 0 THEN -1 ELSE 1), 0>>
    ELSE IF IsInf(y) THEN Zero
    ELSE IF y[1] = 0 THEN (IF x[1] = 0 THEN NaN ELSE <<Sgn(x[1]), 0>>)
    ELSE FMul(x, Recip(y))

\* the order of two non-negative fractions n1/d1 and n2/d2 (-1, 0 or 1), by
\* their continued fractions, so that no product is formed
RECURSIVE CmpPos(_, _, _, _)
CmpPos(n1, d1, n2, d2) ==
    LET q1 == n1 \div d1
        q2 == n2 \div d2
        r1 == n1 % d1
        r2 == n2 % d2
    IN  IF q1 # q2 THEN (IF q1 < q2 THEN -1 ELSE 1)
        ELSE IF r1 = 0 /\ r2 = 0 THEN 0
        ELSE IF r1 = 0 THEN -1
        ELSE IF r2 = 0 THEN 1
        ELSE CmpPos(d2, r2, d1, r1)

\* the order of two finite values
CmpFin(x, y) ==
    IF x[1] < 0 /\ y[1] >= 0 THEN -1
    ELSE IF x[1] >= 0 /\ y[1] < 0 THEN 1
    ELSE IF x[1] >= 0 THEN CmpPos(x[1], x[2], y[1], y[2])
    ELSE CmpPos(-y[1], y[2], -x[1], x[2])

\* x < y; every comparison with NaN is false
FLt(x, y) ==
    IF IsNaN(x) \/ IsNaN(y) \/ IsOvf(x) \/ IsOvf(y) THEN FALSE
    ELSE IF IsInf(x) \/ IsInf(y) THEN
        \/ (x = NInf /\ y # NInf)
        \/ (y = PInf /\ x # PInf)
    ELSE CmpFin(x, y) < 0

FGt(x, y) == FLt(y, x)
FEq(x, y) == ~IsNaN(x) /\ ~IsNaN(y) /\ x = y
FLe(x, y) == FLt(x, y) \/ FEq(x, y)
FGe(x, y) == FLe(y, x)

\* f64::min: when one operand is NaN the other is returned
FMin(x, y) ==
    IF IsOvf(x) \/ IsOvf(y) THEN Ovf
    ELSE IF IsNaN(x) THEN y
    ELSE IF IsNaN(y) THEN x
    ELSE IF FLt(y, x) THEN y ELSE x

\* floor(log2(n/d)) for n, d > 0
RECURSIVE Log2Floor(_, _)
Log2Floor(n, d) ==
    IF n >= d THEN (IF n >= 2 * d THEN 1 + Log2Floor(n, 2 * d) ELSE 0)
    ELSE Log2Floor(2 * n, d) - 1

\* f64::ln, in units of ln 2, at the binary exponent of x
Ln(x) ==
    IF IsOvf(x) THEN Ovf
    ELSE IF IsNaN(x) THEN NaN
    ELSE IF x = PInf THEN PInf
    ELSE IF x[1] < 0 THEN NaN
    ELSE IF x[1] = 0 THEN NInf
    ELSE IF x[1] > MaxMagnitude \/ x[2] > MaxMagnitude THEN Ovf
    ELSE <<Log2Floor(x[1], x[2]), 1>>

\* f64::log(self, base) == self.ln() / base.ln()
Log(x, base) == FDiv(Ln(x), Ln(base))

(***************************************************************************)
(* Records.  A Source is [quality, strength] and a Question is             *)
(* [correct_answers, weight, confidence, answers]; both tables are keyed   *)
(* by name (Question.sources is never written by the engine and is left    *)
(* out).  Option<T> is a sequence of length 0 (None) or 1 (Some).          *)
(***************************************************************************)
None == <<>>
Some(x) == <<x>>

\* metro::hash64 of the content: a fixed function of the content alone
Hash(content) ==
    CASE content = "1" -> 1101
      [] content = "2" -> 2202
      [] content = "1,2" -> 1212
      [] content = "2,1" -> 2121
      [] content = "2,2" -> 2222
      [] content = "inf" -> 3303
      [] content = "NaN" -> 4404
      [] OTHER -> 9909

\* Answer::new
NewAnswer(content, source) ==
    [hash |-> Hash(content), content |-> content, source |-> source]

\* impl Default for Question
DefaultQuestion ==
    [correct_answers |-> <<>>, weight |-> Zero, confidence |-> Zero, answers |-> <<>>]

\* the strategy installed by Graph::new
ExactEqualifier ==
    [kind |-> "exact", max_distance |-> Zero, allowed_difference |-> Zero,
     vec_length |-> 0, diff_fn |-> ""]

NumericEqualifier(max_distance) ==
    [kind |-> "numeric", max_distance |-> max_distance, allowed_difference |-> Zero,
     vec_length |-> 0, diff_fn |-> ""]

NumericVecEqualifier(allowed_difference, vec_length, diff_fn) ==
    [kind |-> "numeric_vec", max_distance |-> Zero,
     allowed_difference |-> allowed_difference, vec_length |-> vec_length,
     diff_fn |-> diff_fn]

\* the default tunables of Graph::new
DefaultSourceQuality == Rat(1, 2)
InitialSourceStrength == Rat(1, 1)
MaximumStrength == Rat(100, 1)
LogWeightFactor == Rat(10, 1)
QualityOfBelievedSources == Rat(999, 1000)

(***************************************************************************)
(* Similarity strategies.                                                  *)
(***************************************************************************)
\* split_to_f64_vec: the content split at "," with every element parsed
SplitToF64Vec(content) ==
    CASE content = "1" -> <<Rat(1, 1)>>
      [] content = "2" -> <<Rat(2, 1)>>
      [] content = "1,2" -> <<Rat(1, 1), Rat(2, 1)>>
      [] content = "2,1" -> <<Rat(2, 1), Rat(1, 1)>>
      [] content = "2,2" -> <<Rat(2, 1), Rat(2, 1)>>
      [] content = "inf" -> <<PInf>>
      [] content = "NaN" -> <<NaN>>
      [] OTHER -> <<>>

\* num::clamp(x, 0.0, 1.0)
Clamp01(x) == IF FLt(x, Zero) THEN Zero ELSE IF FGt(x, One) THEN One ELSE x

FAbs(x) == IF x[1] < 0 THEN FNeg(x) ELSE x

RECURSIVE SumAbsDiff(_, _, _)
SumAbsDiff(av, bv, i) ==
    IF i > Len(av) THEN Zero
    ELSE FAdd(FAbs(FSub(av[i], bv[i])), SumAbsDiff(av, bv, i + 1))

\* ExactEqualifier::is_valid_answer
ExactIsValidAnswer(a) == TRUE

\* (mutant) the whole records are compared, sources included
ExactDistance_WholeAnswer(a, b) == IF a = b THEN Zero ELSE One

\* ExactEqualifier::get_distance
ExactDistance(a, b) == IF a.content = b.content THEN Zero ELSE One

\* the scalar strategy: |x - y| / max_distance, clamped
NumericDistance(eq, a, b) ==
    Clamp01(FDiv(FAbs(FSub(SplitToF64Vec(a.content)[1], SplitToF64Vec(b.content)[1])),
                 eq.max_distance))

RECURSIVE SumSquaredDiff(_, _, _)
SumSquaredDiff(av, bv, i) ==
    IF i > Len(av) THEN Zero
    ELSE FAdd(FMul(FSub(av[i], bv[i]), FSub(av[i], bv[i])), SumSquaredDiff(av, bv, i + 1))

\* the integer square root of v, searched between lo and hi
RECURSIVE IsqrtFrom(_, _, _)
IsqrtFrom(v, lo, hi) ==
    IF lo >= hi THEN lo
    ELSE LET mid == (lo + hi + 1) \div 2
         IN IF mid * mid <= v THEN IsqrtFrom(v, mid, hi) ELSE IsqrtFrom(v, lo, mid - 1)

Isqrt(v) == IsqrtFrom(v, 0, 46340)

\* f64::sqrt: exact on a ratio of squares, to three decimals below otherwise
FSqrt(x) ==
    IF IsNaN(x) \/ IsOvf(x) THEN x
    ELSE IF x[1] < 0 THEN NaN
    ELSE IF IsInf(x) THEN x
    ELSE IF Isqrt(x[1]) * Isqrt(x[1]) = x[1] /\ Isqrt(x[2]) * Isqrt(x[2]) = x[2]
    THEN Rat(Isqrt(x[1]), Isqrt(x[2]))
    ELSE IF x[1] > 40 \/ x[2] > 40 THEN Ovf
    ELSE Rat(Isqrt(x[1] * x[2] * 1000000), x[2] * 1000)

\* the raw difference of two vectors of one length, by diff_fn
VecDiff(diff_fn, av, bv) ==
    IF diff_fn = "percent_not_equal"
    THEN FDiv(Rat(Cardinality({i \in 1..Len(av) : ~FEq(av[i], bv[i])}), 1),
              Rat(Len(av), 1))
    ELSE IF diff_fn = "l2" THEN FSqrt(SumSquaredDiff(av, bv, 1))
    ELSE SumAbsDiff(av, bv, 1)

NumericVecDistanceOf(eq, av, bv) ==
    IF Len(av) # Len(bv) THEN One
    ELSE Clamp01(FDiv(VecDiff(eq.diff_fn, av, bv), eq.allowed_difference))

\* NumericVecEqualifier::get_distance
NumericVecDistance(eq, a, b) ==
    NumericVecDistanceOf(eq, SplitToF64Vec(a.content), SplitToF64Vec(b.content))

\* NumericVecEqualifier::is_valid_answer
NumericVecIsValidAnswer(eq, a) == Len(SplitToF64Vec(a.content)) = eq.vec_length

\* Equalifier::get_distance of the active strategy
GetDistance(eq, a, b) ==
    CASE eq.kind = "exact" -> ExactDistance(a, b)
      [] eq.kind = "numeric" -> NumericDistance(eq, a, b)
      [] OTHER -> NumericVecDistance(eq, a, b)

\* the clusters that hold an answer at distance < 1 from answers[i]
NearClusters(answers, eq, i, acc) ==
    {c \in 1..Len(acc) :
        \E j \in 1..Len(acc[c]) :
            FLt(GetDistance(eq, answers[acc[c][j]], answers[i]), One)}

MinOf(set) == CHOOSE c \in set : \A c2 \in set : c <= c2

\* answers[i] joins the first cluster near it, or opens a new one
Place(acc, i, hits) ==
    IF hits = {} THEN Append(acc, <<i>>)
    ELSE [acc EXCEPT ![MinOf(hits)] = Append(@, i)]

\* compute_clusters: answers are placed in insertion order
RECURSIVE ClustersFrom(_, _, _, _)
ClustersFrom(answers, eq, i, acc) ==
    IF i > Len(answers) THEN acc
    ELSE ClustersFrom(answers, eq, i + 1,
                      Place(acc, i, NearClusters(answers, eq, i, acc)))

ComputeClusters(answers, eq) == ClustersFrom(answers, eq, 1, <<>>)

(***************************************************************************)
(* The update protocol.                                                    *)
(***************************************************************************)
\* the set of hashes of question.correct_answers
CorrectHashes(question) ==
    {question.correct_answers[i].hash : i \in 1..Len(question.correct_answers)}

\* (mutant) every answer is credited as correct
OriginallyCorrectFac_Always(question, a) == One

OriginallyCorrectFac(question, a) ==
    IF a.hash \in CorrectHashes(question) THEN One ELSE Zero

\* one iteration of the loop of add_question_effect
AddEffectOn(src, question, a, max_strength) ==
    [quality |-> FDiv(FAdd(FMul(src.quality, src.strength),
                           FMul(question.weight, OriginallyCorrectFac(question, a))),
                      FAdd(src.strength, question.weight)),
     strength |-> FMin(FAdd(src.strength, question.weight), max_strength)]

\* one iteration of the loop of remove_question_effect
RemoveEffectOn(src, question, a) ==
    [quality |-> FDiv(FSub(FMul(src.quality, src.strength),
                           FMul(question.weight, OriginallyCorrectFac(question, a))),
                      FSub(src.strength, question.weight)),
     strength |-> FSub(src.strength, question.weight)]

RECURSIVE AddFrom(_, _, _, _)
AddFrom(srcs, question, max_strength, i) ==
    IF i > Len(question.answers) THEN srcs
    ELSE AddFrom([srcs EXCEPT ![question.answers[i].source] =
                      AddEffectOn(@, question, question.answers[i], max_strength)],
                 question, max_strength, i + 1)

RECURSIVE RemoveFrom(_, _, _)
RemoveFrom(srcs, question, i) ==
    IF i > Len(question.answers) THEN srcs
    ELSE RemoveFrom([srcs EXCEPT ![question.answers[i].source] =
                         RemoveEffectOn(@, question, question.answers[i])],
                    question, i + 1)

\* (mutant) the weight is booked on every source of the table
AddQuestionEffect_AllSources(srcs, question, max_strength) ==
    [s \in DOMAIN srcs |->
        [AddFrom(srcs, question, max_strength, 1)[s] EXCEPT
            !.strength = FMin(FAdd(srcs[s].strength, question.weight), max_strength)]]

\* add_question_effect: the source table after the loop over question.answers
AddQuestionEffect(srcs, question, max_strength) ==
    AddFrom(srcs, question, max_strength, 1)

\* (mutant) the effect applied before is left in place
RemoveQuestionEffect_Skipped(srcs, question) == srcs

\* remove_question_effect
RemoveQuestionEffect(srcs, question) == RemoveFrom(srcs, question, 1)

\* the fold of compute_answer_clusters_with_confidence over the first n members
RECURSIVE IncorrectChance(_, _, _, _)
IncorrectChance(srcs, answers, members, n) ==
    IF n = 0 THEN One
    ELSE FMul(IncorrectChance(srcs, answers, members, n - 1),
              FSub(One, srcs[answers[members[n]].source].quality))

ClusterConfidence(srcs, answers, members) ==
    FSub(One, IncorrectChance(srcs, answers, members, Len(members)))

\* (mutant) the comparison of argmaxf turned round: the lowest value wins
ArgmaxFrom_Lowest(vec, i, highest_index) ==
    CHOOSE k \in 1..Len(vec) :
        /\ \A j \in 1..Len(vec) : ~FLt(vec[j], vec[k])
        /\ \A j \in 1..(k - 1) : FGt(vec[j], vec[k])

\* argmaxf over a non-empty vector; indices are 1-based here, 0-based in the code
RECURSIVE ArgmaxFrom(_, _, _)
ArgmaxFrom(vec, i, highest_index) ==
    IF i > Len(vec) THEN highest_index
    ELSE IF FGt(vec[i], vec[highest_index]) THEN ArgmaxFrom(vec, i + 1, i)
    ELSE ArgmaxFrom(vec, i + 1, highest_index)

Argmaxf(vec) == ArgmaxFrom(vec, 1, 1)

\* argmaxf reads vec[0] first: an empty vector is an index-out-of-bounds panic
ArgmaxfPanics(vec) == Len(vec) = 0

\* the loop of compute_answer_clusters_with_confidence over the clusters
RECURSIVE ConfidencesFrom(_, _, _, _)
ConfidencesFrom(srcs, answers, clusters, j) ==
    IF j > Len(clusters) THEN <<>>
    ELSE <<ClusterConfidence(srcs, answers, clusters[j])>>
             \o ConfidencesFrom(srcs, answers, clusters, j + 1)

\* AnswerClustersWithConfidences
Analysis(clusters, confidences) ==
    [clusters |-> clusters,
     cluster_confidences |-> confidences,
     panics |-> ArgmaxfPanics(confidences),
     correct_cluster |-> IF ArgmaxfPanics(confidences) THEN 0 ELSE Argmaxf(confidences)]

AnalysisOfClusters(srcs, answers, clusters) ==
    Analysis(clusters, ConfidencesFrom(srcs, answers, clusters, 1))

\* compute_answer_clusters_with_confidence
ComputeAnswerClustersWithConfidence(srcs, question, eq) ==
    AnalysisOfClusters(srcs, question.answers, ComputeClusters(question.answers, eq))

\* the weight of compute_question_answers
NewWeight(correct_answers, confidence, lwf) ==
    IF Len(correct_answers) > 1
    THEN FMul(<<-1, 1>>, Log(FSub(One, confidence), lwf))
    ELSE Zero

\* the answers a cluster indexes, cloned in cluster order
RECURSIVE MembersFrom(_, _, _)
MembersFrom(answers, members, k) ==
    IF k > Len(members) THEN <<>>
    ELSE <<answers[members[k]]>> \o MembersFrom(answers, members, k + 1)

\* the assignments of compute_question_answers
Recomputed(question, correct, conf, lwf) ==
    [question EXCEPT !.correct_answers = correct,
                     !.confidence = conf,
                     !.weight = NewWeight(correct, conf, lwf)]

\* compute_question_answers on an analysis that did not panic
QuestionFromAnalysis(question, an, lwf) ==
    Recomputed(question,
               MembersFrom(question.answers, an.clusters[an.correct_cluster], 1),
               an.cluster_confidences[an.correct_cluster], lwf)

\* compute_question_answers
ComputeQuestionAnswers(srcs, question, eq, lwf) ==
    QuestionFromAnalysis(question,
                         ComputeAnswerClustersWithConfidence(srcs, question, eq), lwf)

\* (mutant) a new source gets the defaults of Graph::new, not the current ones
CreateSourceIfNotExists_Fixed(srcs, name, quality, strength) ==
    IF name \in DOMAIN srcs THEN srcs
    ELSE (name :> [quality |-> DefaultSourceQuality,
                   strength |-> InitialSourceStrength]) @@ srcs

\* create_source_if_not_exists
CreateSourceIfNotExists(srcs, name, quality, strength) ==
    IF name \in DOMAIN srcs THEN srcs
    ELSE (name :> [quality |-> quality, strength |-> strength]) @@ srcs

\* (mutant) the insert is not guarded: an existing question is replaced
CreateQuestionIfNotExists_Replace(qs, name) == (name :> DefaultQuestion) @@ qs

\* create_question_if_not_exists
CreateQuestionIfNotExists(qs, name) ==
    IF name \in DOMAIN qs THEN qs
    ELSE (name :> DefaultQuestion) @@ qs

(***************************************************************************)
(* Commands and responses.                                                 *)
(***************************************************************************)
\* a Command record; fields a command does not carry are empty
Cmd(cmd, question, answer, source, key, val) ==
    [cmd |-> cmd, question |-> question, answer |-> answer, source |-> source,
     config_key |-> key, config_val |-> val]

\* CommandResponse { cmd, ..Default::default() }
OkResponse(cmd) ==
    [kind |-> "ok", cmd |-> cmd, answer |-> None, confidence |-> None,
     quality |-> None, distance |-> None, answers |-> None, error |-> ""]

\* Err(message)
ErrResponse(cmd, message) == [OkResponse(cmd) EXCEPT !.kind = "err", !.error = message]

\* the command aborted (unwrap of None, index out of bounds)
PanicResponse(cmd) == [OkResponse(cmd) EXCEPT !.kind = "panic"]

\* the engine takes commands until one aborts it
Running == budget > 0 /\ response.kind # "panic"

\* every number of a source table, of a question and of a vector is in range
SourcesInRange(srcs) ==
    \A n \in DOMAIN srcs : ~IsOvf(srcs[n].quality) /\ ~IsOvf(srcs[n].strength)
QuestionInRange(question) == ~IsOvf(question.confidence) /\ ~IsOvf(question.weight)
VecInRange(vec) == \A i \in 1..Len(vec) : ~IsOvf(vec[i])

\* (mutant) the first correct answer is reported only when there are two
FirstCorrectOrNone_OffByOne(question) ==
    IF Len(question.correct_answers) > 1 THEN question.correct_answers[1].content
    ELSE "None"

\* correct_answers.first(), or the placeholder answer "None"
FirstCorrectOrNone(question) ==
    IF Len(question.correct_answers) > 0 THEN question.correct_answers[1].content
    ELSE "None"

\* (mutant) add-effect runs on the record as it was before the recompute
Recompute_StaleAdd(cmd, qs1, q, srcs2, qrec, an, resp) ==
    \E q3 \in {QuestionFromAnalysis(qrec, an, log_weight_factor)} :
    \E srcs3 \in {AddQuestionEffect(srcs2, qrec, maximum_strength)} :
        /\ QuestionInRange(q3) /\ SourcesInRange(srcs3)
        /\ sources' = srcs3
        /\ questions' = [qs1 EXCEPT ![q] = q3]
        /\ response' = IF cmd = "Set" THEN resp
                       ELSE [resp EXCEPT !.confidence = Some(q3.confidence),
                                         !.answer = Some(FirstCorrectOrNone(q3))]

\* the three phases on question q, whose record (with a new answer already
\* appended, for Set) is qrec: remove-effect, recompute, add-effect
Recompute(cmd, qs1, q, srcs2, qrec, an, resp) ==
    \E q3 \in {QuestionFromAnalysis(qrec, an, log_weight_factor)} :
    \E srcs3 \in {AddQuestionEffect(srcs2, q3, maximum_strength)} :
        /\ QuestionInRange(q3) /\ SourcesInRange(srcs3)
        /\ sources' = srcs3
        /\ questions' = [qs1 EXCEPT ![q] = q3]
        /\ response' = IF cmd = "Set" THEN resp
                       ELSE [resp EXCEPT !.confidence = Some(q3.confidence),
                                         !.answer = Some(FirstCorrectOrNone(q3))]

\* CommandType::Set
Set(q, a, s) ==
    /\ Running
    /\ \E srcs1 \in {CreateSourceIfNotExists(sources, s, default_source_quality,
                                             initial_source_strength)} :
       \E qs1 \in {CreateQuestionIfNotExists(questions, q)} :
       \E srcs2 \in {RemoveQuestionEffect(srcs1, qs1[q])} :
       \E q2 \in {[qs1[q] EXCEPT !.answers = Append(@, NewAnswer(a, s))]} :
       \E an \in {ComputeAnswerClustersWithConfidence(srcs2, q2, equalifier)} :
            /\ SourcesInRange(srcs2) /\ VecInRange(an.cluster_confidences)
            /\ Recompute("Set", qs1, q, srcs2, q2, an, OkResponse("Set"))
    /\ last' = Cmd("Set", q, a, s, "", <<>>)
    /\ budget' = budget - 1
    /\ UNCHANGED asked
    /\ UNCHANGED <<tunables, equalifier>>

\* CommandType::GetAnswer
GetAnswer(q) ==
    /\ Running
    /\ \E qs1 \in {CreateQuestionIfNotExists(questions, q)} :
       \E srcs2 \in {RemoveQuestionEffect(sources, qs1[q])} :
       \E an \in {ComputeAnswerClustersWithConfidence(srcs2, qs1[q], equalifier)} :
            /\ SourcesInRange(srcs2) /\ VecInRange(an.cluster_confidences)
            /\ IF an.panics
               THEN /\ sources' = srcs2
                    /\ questions' = qs1
                    /\ response' = PanicResponse("GetAnswer")
               ELSE Recompute("GetAnswer", qs1, q, srcs2, qs1[q], an,
                              OkResponse("GetAnswer"))
    /\ last' = Cmd("GetAnswer", q, "", "", "", <<>>)
    /\ budget' = budget - 1
    /\ UNCHANGED asked
    /\ UNCHANGED <<tunables, equalifier>>

\* CommandType::GetSource
GetSource(s) ==
    /\ Running
    /\ \E srcs1 \in {CreateSourceIfNotExists(sources, s, default_source_quality,
                                             initial_source_strength)} :
            /\ sources' = srcs1
            /\ response' = [OkResponse("GetSource") EXCEPT
                               !.quality = Some(srcs1[s].quality)]
    /\ last' = Cmd("GetSource", "", "", s, "", <<>>)
    /\ budget' = budget - 1
    /\ UNCHANGED asked
    /\ UNCHANGED <<questions, tunables, equalifier>>

\* (mutant) Believe that forgets the strength
Believed_QualityOnly(src, quality, strength) == [src EXCEPT !.quality = quality]

\* the source record Believe writes
Believed(src, quality, strength) == [src EXCEPT !.quality = quality, !.strength = strength]

\* CommandType::Believe
Believe(s) ==
    /\ Running
    /\ sources' = [CreateSourceIfNotExists(sources, s, default_source_quality,
                                           initial_source_strength)
                      EXCEPT ![s] = Believed(@, quality_of_believed_sources,
                                             maximum_strength)]
    /\ response' = OkResponse("Believe")
    /\ last' = Cmd("Believe", "", "", s, "", <<>>)
    /\ budget' = budget - 1
    /\ UNCHANGED asked
    /\ UNCHANGED <<questions, tunables, equalifier>>

\* a TestEquality command: it carries answer1 and answer2
TestCmd(a1, a2) ==
    [answer1 |-> a1, answer2 |-> a2] @@ Cmd("TestEquality", "", "", "", "", <<>>)

\* CommandType::TestEquality
TestEquality(a1, a2) ==
    /\ Running
    /\ \E d \in {GetDistance(equalifier, NewAnswer(a1, "None"), NewAnswer(a2, "None"))} :
            /\ ~IsOvf(d)
            /\ response' = [OkResponse("TestEquality") EXCEPT !.distance = Some(d)]
    /\ last' = TestCmd(a1, a2)
    /\ budget' = budget - 1
    /\ UNCHANGED asked
    /\ UNCHANGED <<sources, questions, tunables, equalifier>>

\* the answer indices of one cluster, each tagged with the cluster's index
RECURSIVE TagFrom(_, _, _)
TagFrom(members, c, k) ==
    IF k > Len(members) THEN <<>>
    ELSE <<[cluster |-> c, index |-> members[k]]>> \o TagFrom(members, c, k + 1)

\* the order in which GetAnswers visits the answers: cluster by cluster
RECURSIVE VisitsFrom(_, _)
VisitsFrom(clusters, c) ==
    IF c > Len(clusters) THEN <<>>
    ELSE TagFrom(clusters[c], c, 1) \o VisitsFrom(clusters, c + 1)

\* (mutant) the loop of GetAnswers without the answer_hashes_added test
RECURSIVE PairsFrom_NoDedupe(_, _, _, _, _)
PairsFrom_NoDedupe(answers, confidences, visits, k, answer_hashes_added) ==
    IF k > Len(visits) THEN <<>>
    ELSE <<[answer |-> answers[visits[k].index].content,
            confidence |-> confidences[visits[k].cluster]]>>
         \o PairsFrom_NoDedupe(answers, confidences, visits, k + 1, answer_hashes_added)

\* the loop of GetAnswers: an answer whose hash was already added is skipped
RECURSIVE PairsFrom(_, _, _, _, _)
PairsFrom(answers, confidences, visits, k, answer_hashes_added) ==
    IF k > Len(visits) THEN <<>>
    ELSE IF answers[visits[k].index].hash \in answer_hashes_added
    THEN PairsFrom(answers, confidences, visits, k + 1, answer_hashes_added)
    ELSE <<[answer |-> answers[visits[k].index].content,
            confidence |-> confidences[visits[k].cluster]]>>
         \o PairsFrom(answers, confidences, visits, k + 1,
                      answer_hashes_added \cup {answers[visits[k].index].hash})

\* the AnswerConfidencePair list GetAnswers builds from an analysis
AnswerConfidencePairs(question, an) ==
    PairsFrom(question.answers, an.cluster_confidences, VisitsFrom(an.clusters, 1), 1, {})

\* the response of GetAnswers on a question of the table
GetAnswersResponse(question, an) ==
    IF an.panics THEN PanicResponse("GetAnswers")
    ELSE [OkResponse("GetAnswers") EXCEPT !.answers = Some(AnswerConfidencePairs(question, an))]

\* (mutant) GetAnswers runs the remove / recompute / add protocol of GetAnswer
GetAnswers_Recomputing(q) ==
    /\ Running
    /\ q \in DOMAIN questions
    /\ \E srcs2 \in {RemoveQuestionEffect(sources, questions[q])} :
       \E an \in {ComputeAnswerClustersWithConfidence(srcs2, questions[q], equalifier)} :
            /\ SourcesInRange(srcs2) /\ VecInRange(an.cluster_confidences)
            /\ ~an.panics
            /\ Recompute("GetAnswers", questions, q, srcs2, questions[q], an,
                         OkResponse("GetAnswers"))
    /\ last' = Cmd("GetAnswers", q, "", "", "", <<>>)
    /\ budget' = budget - 1
    /\ UNCHANGED asked
    /\ UNCHANGED <<tunables, equalifier>>

\* CommandType::GetAnswers: no lazy creation, so questions.get(..).unwrap()
\* panics on a name that is not in the table
GetAnswers(q) ==
    /\ Running
    /\ IF q \notin DOMAIN questions
       THEN response' = PanicResponse("GetAnswers")
       ELSE \E an \in {ComputeAnswerClustersWithConfidence(sources, questions[q],
                                                           equalifier)} :
                /\ VecInRange(an.cluster_confidences)
                /\ response' = GetAnswersResponse(questions[q], an)
    /\ last' = Cmd("GetAnswers", q, "", "", "", <<>>)
    /\ budget' = budget - 1
    /\ UNCHANGED asked
    /\ UNCHANGED <<sources, questions, tunables, equalifier>>

(***************************************************************************)
(* Configure.  A config_val is the sequence of its whitespace-separated    *)
(* tokens; a token is a bare word (eq = FALSE) or name=val (eq = TRUE).    *)
(***************************************************************************)
Word(w) == [name |-> w, val |-> "", eq |-> FALSE]
Param(n, v) == [name |-> n, val |-> v, eq |-> TRUE]

\* str::parse::<f64>
ParseF64(str) ==
    CASE str = "0" -> Some(Zero)
      [] str = "0.5" -> Some(Rat(1, 2))
      [] str = "1" -> Some(One)
      [] str = "2" -> Some(Rat(2, 1))
      [] str = "10" -> Some(Rat(10, 1))
      [] OTHER -> None

\* str::parse::<usize>
ParseUsize(str) ==
    CASE str = "0" -> Some(0)
      [] str = "1" -> Some(1)
      [] str = "2" -> Some(2)
      [] str = "10" -> Some(10)
      [] OTHER -> None

\* VecDistAlgo::from
VecDistAlgoFrom(str) ==
    IF str \in {"l1", "l2", "percent_not_equal", "iou"} THEN Some(str) ELSE None

\* params.get(name): the map built from the name=val tokens, later ones winning
LastOf(val, hits) ==
    IF hits = {} THEN None
    ELSE Some(val[CHOOSE i \in hits : \A j \in hits : j <= i].val)

ParamGet(val, name) ==
    LastOf(val, {i \in 1..Len(val) : val[i].eq /\ val[i].name = name})

\* the whole config_val parsed as an f64: only a single bare token can parse
ParseWholeF64(val) ==
    IF Len(val) = 1 /\ ~val[1].eq THEN ParseF64(val[1].name) ELSE None

AndThenF64(opt) == IF opt = None THEN None ELSE ParseF64(opt[1])
AndThenUsize(opt) == IF opt = None THEN None ELSE ParseUsize(opt[1])
AndThenAlgo(opt) == IF opt = None THEN None ELSE VecDistAlgoFrom(opt[1])

\* the engine fields as they are before a command
Engine ==
    [default_source_quality |-> default_source_quality,
     initial_source_strength |-> initial_source_strength,
     maximum_strength |-> maximum_strength,
     log_weight_factor |-> log_weight_factor,
     equalifier |-> equalifier]

Outcome(kind, error, engine) == [kind |-> kind, error |-> error, engine |-> engine]

\* the "numeric" arm of comparison_method, max_distance already looked up
NumericOutcome(max_distance) ==
    IF max_distance = None
    THEN Outcome("err", "max_distance must be specified", Engine)
    ELSE Outcome("ok", "",
                 [Engine EXCEPT !.equalifier = NumericEqualifier(max_distance[1])])

ConfigureNumeric(val) == NumericOutcome(AndThenF64(ParamGet(val, "max_distance")))

\* (mutant) the strategy is installed before diff_fn is validated
NumericVecOutcome_Early(allowed_difference, vec_length, diff_fn) ==
    IF allowed_difference = None
    THEN Outcome("err", "allowed_difference must be specified (try 1.0)", Engine)
    ELSE IF vec_length = None
    THEN Outcome("err", "vec_length must be specified (vector lengths must be fixed)",
                 Engine)
    ELSE IF diff_fn = None
    THEN Outcome("err", "diff_fn must be specified (l1, l2, percent_not_equal, iou)",
                 [Engine EXCEPT !.equalifier =
                     NumericVecEqualifier(allowed_difference[1], vec_length[1], "l1")])
    ELSE Outcome("ok", "",
                 [Engine EXCEPT !.equalifier =
                     NumericVecEqualifier(allowed_difference[1], vec_length[1],
                                          diff_fn[1])])

\* the "numeric_vec" arm of comparison_method, the parameters already looked up
NumericVecOutcome(allowed_difference, vec_length, diff_fn) ==
    IF allowed_difference = None
    THEN Outcome("err", "allowed_difference must be specified (try 1.0)", Engine)
    ELSE IF vec_length = None
    THEN Outcome("err", "vec_length must be specified (vector lengths must be fixed)",
                 Engine)
    ELSE IF diff_fn = None
    THEN Outcome("err", "diff_fn must be specified (l1, l2, percent_not_equal, iou)",
                 Engine)
    ELSE Outcome("ok", "",
                 [Engine EXCEPT !.equalifier =
                     NumericVecEqualifier(allowed_difference[1], vec_length[1],
                                          diff_fn[1])])

ConfigureNumericVec(val) ==
    NumericVecOutcome(AndThenF64(ParamGet(val, "allowed_difference")),
                      AndThenUsize(ParamGet(val, "vec_length")),
                      AndThenAlgo(ParamGet(val, "diff_fn")))

\* the "comparison_method" arm: next().unwrap() of an empty value panics
ConfigureComparisonMethod(val) ==
    IF Len(val) = 0 THEN Outcome("panic", "", Engine)
    ELSE IF val[1].eq THEN Outcome("err", "unknown comparison method", Engine)
    ELSE CASE val[1].name = "exact" ->
                Outcome("ok", "", [Engine EXCEPT !.equalifier = ExactEqualifier])
           [] val[1].name = "numeric" -> ConfigureNumeric(val)
           [] val[1].name = "numeric_vec" -> ConfigureNumericVec(val)
           [] OTHER -> Outcome("err", "unknown comparison method", Engine)

\* (mutant) every numeric arm also writes default_source_quality
TunableOutcome_CopyPaste(key, v) ==
    IF v = None THEN Outcome("ok", "", Engine)
    ELSE Outcome("ok", "", [Engine EXCEPT ![key] = v[1],
                                          !.default_source_quality = v[1]])

\* the four numeric keys: the field is written only when the value parses,
\* and the arm falls through to the Ok response either way
TunableOutcome(key, v) ==
    IF v = None THEN Outcome("ok", "", Engine)
    ELSE Outcome("ok", "", [Engine EXCEPT ![key] = v[1]])

ConfigureTunable(key, val) == TunableOutcome(key, ParseWholeF64(val))

TunableKeys == {"default_source_quality", "log_weight_factor",
                "initial_source_strength", "maximum_strength"}

\* the match on config_key
ConfigureOutcome(key, val) ==
    IF key = "comparison_method" THEN ConfigureComparisonMethod(val)
    ELSE IF key \in TunableKeys THEN ConfigureTunable(key, val)
    ELSE Outcome("err", "Unknown configuration key", Engine)

\* CommandType::Configure
Configure(key, val) ==
    /\ Running
    /\ \E out \in {ConfigureOutcome(key, val)} :
            /\ default_source_quality' = out.engine.default_source_quality
            /\ initial_source_strength' = out.engine.initial_source_strength
            /\ maximum_strength' = out.engine.maximum_strength
            /\ log_weight_factor' = out.engine.log_weight_factor
            /\ equalifier' = out.engine.equalifier
            /\ response' = [OkResponse("Configure") EXCEPT !.kind = out.kind,
                                                           !.error = out.error]
    /\ last' = Cmd("Configure", "", "", "", key, val)
    /\ budget' = budget - 1
    /\ UNCHANGED asked
    /\ UNCHANGED <<sources, questions, quality_of_believed_sources>>

\* the Configure commands the model issues
ConfigInputs ==
    {<<"comparison_method", <<Word("exact")>> >>,
     <<"comparison_method", <<Word("numeric"), Param("max_distance", "2")>> >>,
     <<"comparison_method", <<Word("numeric")>> >>,
     <<"comparison_method", <<Word("numeric"), Param("max_distance", "abc")>> >>,
     <<"comparison_method", <<Word("numeric_vec"), Param("allowed_difference", "2"),
                              Param("vec_length", "1"), Param("diff_fn", "l1")>> >>,
     <<"comparison_method", <<Word("numeric_vec"), Param("vec_length", "1"),
                              Param("diff_fn", "l1")>> >>,
     <<"comparison_method", <<Word("numeric_vec"), Param("allowed_difference", "abc"),
                              Param("vec_length", "1"), Param("diff_fn", "l1")>> >>,
     <<"comparison_method", <<Word("numeric_vec"), Param("allowed_difference", "2"),
                              Param("vec_length", "0.5"), Param("diff_fn", "l1")>> >>,
     <<"comparison_method", <<Word("numeric_vec"), Param("allowed_difference", "2"),
                              Param("vec_length", "1")>> >>,
     <<"comparison_method", <<Word("numeric_vec"), Param("allowed_difference", "2"),
                              Param("vec_length", "1"), Param("diff_fn", "cosine")>> >>,
     <<"comparison_method", <<Word("fuzzy")>> >>,
     <<"comparison_method", <<>> >>,
     <<"default_source_quality", <<Word("0")>> >>,
     <<"default_source_quality", <<Word("abc")>> >>,
     <<"log_weight_factor", <<Word("2")>> >>,
     <<"log_weight_factor", <<Word("abc")>> >>,
     <<"initial_source_strength", <<Word("0")>> >>,
     <<"initial_source_strength", <<Word("abc")>> >>,
     <<"maximum_strength", <<Word("2")>> >>,
     <<"maximum_strength", <<Word("abc")>> >>,
     <<"colour", <<Word("1")>> >>}

(***************************************************************************)
(* The engine as a state machine: one step is one execute_command call.    *)
(***************************************************************************)
NoCommand == Cmd("Invalid", "", "", "", "", <<>>)

\* Graph::new
Init ==
    /\ sources = <<>>
    /\ questions = <<>>
    /\ default_source_quality = DefaultSourceQuality
    /\ initial_source_strength = InitialSourceStrength
    /\ maximum_strength = MaximumStrength
    /\ log_weight_factor = LogWeightFactor
    /\ quality_of_believed_sources = QualityOfBelievedSources
    /\ equalifier = ExactEqualifier
    /\ last = NoCommand
    /\ response = OkResponse("Invalid")
    /\ budget = MaxCmds
    /\ asked = {"q1"}

InitCfg ==
    /\ sources = <<>>
    /\ questions = <<>>
    /\ default_source_quality = DefaultSourceQuality
    /\ initial_source_strength = InitialSourceStrength
    /\ maximum_strength = MaximumStrength
    /\ log_weight_factor = LogWeightFactor
    /\ quality_of_believed_sources = QualityOfBelievedSources
    /\ equalifier = ExactEqualifier
    /\ last = NoCommand
    /\ response = OkResponse("Invalid")
    /\ budget = MaxCfgCmds
    /\ asked = {"q1"}

SetCmd == \E q \in asked, a \in Contents, s \in SourceNames : Set(q, a, s)
GetAnswerCmd == \E q \in asked : GetAnswer(q)
GetSourceCmd == \E s \in SourceNames : GetSource(s)
BelieveCmd == \E s \in SourceNames : Believe(s)
ConfigureCmd == \E c \in ConfigInputs : Configure(c[1], c[2])

\* the data-path commands under the tunables of Graph::new
Next == SetCmd \/ GetAnswerCmd \/ GetSourceCmd \/ BelieveCmd

Spec == Init /\ [][Next]_vars

\* every command, Configure included
NextCfg == SetCmd \/ GetAnswerCmd \/ GetSourceCmd \/ BelieveCmd \/ ConfigureCmd

SpecCfg == InitCfg /\ [][NextCfg]_vars

\* the Configure commands of the full machine: one that succeeds per strategy
\* and per tunable, and one that fails
ConfigInputsAll ==
    {<<"comparison_method", <<Word("exact")>> >>,
     <<"comparison_method", <<Word("numeric"), Param("max_distance", "2")>> >>,
     <<"comparison_method", <<Word("numeric_vec"), Param("allowed_difference", "2"),
                              Param("vec_length", "1"), Param("diff_fn", "l1")>> >>,
     <<"comparison_method", <<Word("numeric")>> >>,
     <<"initial_source_strength", <<Word("0")>> >>,
     <<"maximum_strength", <<Word("2")>> >>}

InitAll ==
    /\ sources = <<>>
    /\ questions = <<>>
    /\ default_source_quality = DefaultSourceQuality
    /\ initial_source_strength = InitialSourceStrength
    /\ maximum_strength = MaximumStrength
    /\ log_weight_factor = LogWeightFactor
    /\ quality_of_believed_sources = QualityOfBelievedSources
    /\ equalifier = ExactEqualifier
    /\ last = NoCommand
    /\ response = OkResponse("Invalid")
    /\ budget = MaxAllCmds
    /\ asked = {"q1"}

TestEqualityCmd == \E a1 \in Contents, a2 \in Contents : TestEquality(a1, a2)
GetAnswersCmd == \E q \in asked : GetAnswers(q)
ConfigureAllCmd == \E c \in ConfigInputsAll : Configure(c[1], c[2])

\* the seven commands of execute_command
NextAll ==
    \/ SetCmd \/ GetAnswerCmd \/ GetSourceCmd \/ BelieveCmd
    \/ ConfigureAllCmd \/ TestEqualityCmd \/ GetAnswersCmd

SpecAll == InitAll /\ [][NextAll]_vars

\* the client of the majority runs: three sources answer one question
MajoritySources == {"s1", "s2", "s3"}

InitMajority ==
    /\ sources = <<>>
    /\ questions = <<>>
    /\ default_source_quality = DefaultSourceQuality
    /\ initial_source_strength = InitialSourceStrength
    /\ maximum_strength = MaximumStrength
    /\ log_weight_factor = LogWeightFactor
    /\ quality_of_believed_sources = QualityOfBelievedSources
    /\ equalifier = ExactEqualifier
    /\ last = NoCommand
    /\ response = OkResponse("Invalid")
    /\ budget = MaxMajorityCmds
    /\ asked = {"q1"}

SetMajorityCmd == \E q \in asked, a \in Contents, s \in MajoritySources : Set(q, a, s)

\* answers of three sources, read back, with a source believed now and then
NextMajority == SetMajorityCmd \/ GetAnswerCmd \/ BelieveCmd

SpecMajority == InitMajority /\ [][NextMajority]_vars

\* the answers the vector runs compare: one and two components, and the
\* non-finite values parse::<f64> accepts
VecContents == {"1", "2", "1,2", "2,1", "2,2", "inf", "NaN"}

\* the strategies the vector runs install
VecConfigInputs ==
    {<<"comparison_method", <<Word("numeric_vec"), Param("allowed_difference", ad),
                              Param("vec_length", n), Param("diff_fn", f)>> >> :
        ad \in {"0", "0.5", "1", "2"}, n \in {"1", "2"},
        f \in {"l1", "l2", "percent_not_equal"}}

InitVec ==
    /\ sources = <<>>
    /\ questions = <<>>
    /\ default_source_quality = DefaultSourceQuality
    /\ initial_source_strength = InitialSourceStrength
    /\ maximum_strength = MaximumStrength
    /\ log_weight_factor = LogWeightFactor
    /\ quality_of_believed_sources = QualityOfBelievedSources
    /\ equalifier = ExactEqualifier
    /\ last = NoCommand
    /\ response = OkResponse("Invalid")
    /\ budget = MaxVecCmds
    /\ asked = {"q1"}

ConfigureVecCmd == \E c \in VecConfigInputs : Configure(c[1], c[2])
TestEqualityVecCmd == \E a1 \in VecContents, a2 \in VecContents : TestEquality(a1, a2)

\* a strategy is installed and pairs of vectors are compared under it
NextVec == ConfigureVecCmd \/ TestEqualityVecCmd

SpecVec == InitVec /\ [][NextVec]_vars

\* two questions answered and read back, no source believed and nothing
\* configured
InitAccounting ==
    /\ sources = <<>>
    /\ questions = <<>>
    /\ default_source_quality = DefaultSourceQuality
    /\ initial_source_strength = InitialSourceStrength
    /\ maximum_strength = MaximumStrength
    /\ log_weight_factor = LogWeightFactor
    /\ quality_of_believed_sources = QualityOfBelievedSources
    /\ equalifier = ExactEqualifier
    /\ last = NoCommand
    /\ response = OkResponse("Invalid")
    /\ budget = MaxAccountingCmds
    /\ asked = {"q1", "q2"}

NextAccounting == SetCmd \/ GetAnswerCmd \/ GetSourceCmd

SpecAccounting == InitAccounting /\ [][NextAccounting]_vars

\* two questions, answered, read back, their sources looked up and believed
InitLocality ==
    /\ sources = <<>>
    /\ questions = <<>>
    /\ default_source_quality = DefaultSourceQuality
    /\ initial_source_strength = InitialSourceStrength
    /\ maximum_strength = MaximumStrength
    /\ log_weight_factor = LogWeightFactor
    /\ quality_of_believed_sources = QualityOfBelievedSources
    /\ equalifier = ExactEqualifier
    /\ last = NoCommand
    /\ response = OkResponse("Invalid")
    /\ budget = MaxLocalityCmds
    /\ asked = {"q1", "q2"}

NextLocality == SetCmd \/ GetAnswerCmd \/ GetSourceCmd \/ BelieveCmd

SpecLocality == InitLocality /\ [][NextLocality]_vars

\* two questions answered and read back through GetAnswer and GetAnswers, no
\* source believed
InitLeaveOneOut ==
    /\ sources = <<>>
    /\ questions = <<>>
    /\ default_source_quality = DefaultSourceQuality
    /\ initial_source_strength = InitialSourceStrength
    /\ maximum_strength = MaximumStrength
    /\ log_weight_factor = LogWeightFactor
    /\ quality_of_believed_sources = QualityOfBelievedSources
    /\ equalifier = ExactEqualifier
    /\ last = NoCommand
    /\ response = OkResponse("Invalid")
    /\ budget = MaxLeaveOneOutCmds
    /\ asked = {"q1", "q2"}

NextLeaveOneOut == SetCmd \/ GetAnswerCmd \/ GetAnswersCmd

SpecLeaveOneOut == InitLeaveOneOut /\ [][NextLeaveOneOut]_vars

(***************************************************************************)
(* Properties.                                                             *)
(***************************************************************************)
InUnit(x) == FLe(Zero, x) /\ FLe(x, One)

\* C1: under the default tunables every source has 0 <= quality <= 1 and
\* 0 <= strength <= maximum_strength after any sequence of Set, GetAnswer,
\* GetSource and Believe commands.
C1_SourceBounds ==
    \A n \in DOMAIN sources :
        /\ InUnit(sources[n].quality)
        /\ FLe(Zero, sources[n].strength)
        /\ FLe(sources[n].strength, maximum_strength)

\* every record of correct_answers is a record of answers
CorrectAmongAnswers(question) ==
    \A i \in 1..Len(question.correct_answers) :
        \E j \in 1..Len(question.answers) :
            question.answers[j] = question.correct_answers[i]

\* C2: every question has 0 <= confidence <= 1, weight >= 0 and its
\* correct_answers among its answers.
C2_QuestionBounds ==
    \A n \in DOMAIN questions :
        /\ InUnit(questions[n].confidence)
        /\ FLe(Zero, questions[n].weight)
        /\ CorrectAmongAnswers(questions[n])

\* a step that executes GetAnswer right after a GetAnswer on the same question,
\* both returning a response
SecondGetAnswer ==
    /\ last.cmd = "GetAnswer" /\ response.kind = "ok"
    /\ last'.cmd = "GetAnswer" /\ response'.kind = "ok"
    /\ last'.question = last.question

\* C3: the second of two consecutive GetAnswer(q) calls returns the same answer
\* and confidence as the first and leaves the sources and q as the first left them.
C3_GetAnswerIdempotent ==
    [][SecondGetAnswer =>
            /\ response' = response
            /\ sources' = sources
            /\ questions' = questions]_vars

\* C6: GetAnswer on a question without answers returns a response whose answer
\* is "None".
C6_GetAnswerEmptyIsNone ==
    (last.cmd = "GetAnswer" /\ questions[last.question].answers = <<>>)
        => (response.kind = "ok" /\ response.answer = Some("None"))

\* the source table after remove_question_effect and then add_question_effect
RemoveThenAdd(question) ==
    AddQuestionEffect(RemoveQuestionEffect(sources, question), question, maximum_strength)

\* C4: remove_question_effect followed by add_question_effect, with the question
\* unchanged in between, leaves every source with the quality and strength it
\* had (a NaN that stays a NaN counts as restored).
C4_RemoveThenAddRestores ==
    \A n \in DOMAIN questions :
        (SourcesInRange(RemoveQuestionEffect(sources, questions[n]))
            /\ SourcesInRange(RemoveThenAdd(questions[n])))
        => sources = RemoveThenAdd(questions[n])

\* a step that executes GetAnswer right after a Set on the same question
GetAnswerAfterSet ==
    /\ last.cmd = "Set"
    /\ last'.cmd = "GetAnswer"
    /\ last'.question = last.question

ContentsOf(answers) == {answers[j].content : j \in 1..Len(answers)}

\* C5: Set(q, a, s) followed immediately by GetAnswer(q) returns the content of
\* a member of q.answers, never the placeholder "None"; q.correct_answers is
\* not empty.
C5_SetThenGetAnswerNotNone ==
    [][GetAnswerAfterSet =>
            /\ response'.kind = "ok"
            /\ response'.answer # Some("None")
            /\ response'.answer[1] \in ContentsOf(questions'[last'.question].answers)
            /\ questions'[last'.question].correct_answers # <<>>]_vars

\* the second command was GetAnswer on a question that the first command, a Set,
\* gave its only answer, and it returned that answer
C5_Witness ==
    /\ budget = MaxCmds - 2
    /\ last.cmd = "GetAnswer" /\ response.kind = "ok"
    /\ Len(questions[last.question].answers) = 1
    /\ response.answer = Some(questions[last.question].answers[1].content)

\* a step that executes GetSource(s) right after Believe(s)
GetSourceAfterBelieve ==
    /\ last.cmd = "Believe"
    /\ last'.cmd = "GetSource"
    /\ last'.source = last.source

\* C7: after Believe(s) the source has quality quality_of_believed_sources and
\* strength maximum_strength, and a GetSource(s) that follows immediately
\* returns quality_of_believed_sources.
C7_BelieveThenGetSource ==
    [][/\ last'.cmd = "Believe" =>
            /\ sources'[last'.source].quality = quality_of_believed_sources'
            /\ sources'[last'.source].strength = maximum_strength'
       /\ GetSourceAfterBelieve =>
            response'.quality = Some(quality_of_believed_sources')]_vars

\* the second command was GetSource(s) and the first Believe(s) on a source
\* never referenced before: s is the only source and holds the believed values
C7_Witness ==
    /\ budget = MaxCmds - 2
    /\ last.cmd = "GetSource"
    /\ DOMAIN sources = {last.source}
    /\ sources[last.source].strength = maximum_strength
    /\ response.quality = Some(quality_of_believed_sources)

\* source s is the source of an answer of some question of qs
OwnsAnswer(qs, s) ==
    \E n \in DOMAIN qs : \E j \in 1..Len(qs[n].answers) : qs[n].answers[j].source = s

\* C8: a source that owns no answer is changed by no command other than
\* Believe on it: it keeps its quality and strength, which at its creation are
\* the default_source_quality and initial_source_strength then in force.
C8_BystanderUnchanged ==
    [][\A s \in DOMAIN sources' :
            (~OwnsAnswer(questions', s) /\ ~(last'.cmd = "Believe" /\ last'.source = s))
            => IF s \in DOMAIN sources
               THEN sources'[s] = sources[s]
               ELSE sources'[s] = [quality |-> default_source_quality,
                                   strength |-> initial_source_strength]]_vars

\* a source that owns no answer still holds the defaults it was created with
\* after a question of weight > 0 has changed another source
C8_Witness ==
    \E s \in DOMAIN sources, t \in DOMAIN sources, n \in DOMAIN questions :
        /\ s # t
        /\ ~OwnsAnswer(questions, s)
        /\ sources[s] = [quality |-> DefaultSourceQuality,
                         strength |-> InitialSourceStrength]
        /\ FGt(questions[n].weight, Zero)
        /\ sources[t].strength # InitialSourceStrength

\* C9: a Configure that returns an error value leaves the tunables, the
\* strategy and every source and question record unchanged.
C9_ConfigErrorKeepsState ==
    [][(last'.cmd = "Configure" /\ response'.kind = "err")
            => UNCHANGED <<tunables, equalifier, sources, questions>>]_vars

\* a Configure returned an error on an engine that an earlier Configure had
\* moved off the exact strategy
C9_Witness ==
    /\ last.cmd = "Configure" /\ response.kind = "err"
    /\ equalifier.kind # "exact"

\* a Configure value that is invalid or omits a required parameter
InvalidConfig(key, val) ==
    \/ key \in TunableKeys /\ ParseWholeF64(val) = None
    \/ key = "comparison_method" /\ val = <<>>
    \/ /\ key = "comparison_method" /\ val # <<>>
       /\ val[1] = Word("numeric")
       /\ AndThenF64(ParamGet(val, "max_distance")) = None
    \/ /\ key = "comparison_method" /\ val # <<>>
       /\ val[1] = Word("numeric_vec")
       /\ \/ AndThenF64(ParamGet(val, "allowed_difference")) = None
          \/ AndThenUsize(ParamGet(val, "vec_length")) = None
          \/ AndThenAlgo(ParamGet(val, "diff_fn")) = None

\* C10: a Configure whose value is invalid or omits a required parameter
\* returns an error response.
C10_InvalidConfigIsError ==
    (last.cmd = "Configure" /\ InvalidConfig(last.config_key, last.config_val))
        => response.kind = "err"

IsPrefix(a, b) == Len(a) <= Len(b) /\ SubSeq(b, 1, Len(a)) = a

\* the answers of question n in the table qs, none when n is not in it
AnswersOf(qs, n) == IF n \in DOMAIN qs THEN qs[n].answers ELSE <<>>

\* the source and question names a command that returned a response refers to
NamedSources(cmd) == IF cmd.source = "" THEN {} ELSE {cmd.source}
NamedQuestions(cmd) == IF cmd.question = "" THEN {} ELSE {cmd.question}

\* C11: no command removes a source or a question; a command that returns a
\* response leaves the sources and questions it names in the tables and creates
\* no others; every answers sequence is a prefix of what it is after the
\* command, and it grows only by the one record of a Set on that question.
C11_TablesOnlyGrow ==
    [][/\ DOMAIN sources \subseteq DOMAIN sources'
       /\ DOMAIN questions \subseteq DOMAIN questions'
       /\ response'.kind = "ok" =>
            /\ DOMAIN sources' = DOMAIN sources \cup NamedSources(last')
            /\ DOMAIN questions' = DOMAIN questions \cup NamedQuestions(last')
       /\ \A n \in DOMAIN questions' :
            /\ IsPrefix(AnswersOf(questions, n), questions'[n].answers)
            /\ questions'[n].answers =
                  IF last'.cmd = "Set" /\ last'.question = n
                  THEN Append(AnswersOf(questions, n),
                              NewAnswer(last'.answer, last'.source))
                  ELSE AnswersOf(questions, n)]_vars

\* a Set by a second source appended to a question that already had an answer,
\* after a command that is not a Set had run
C11_Witness ==
    /\ last.cmd = "Set"
    /\ Len(questions[last.question].answers) >= 2
    /\ Cardinality(DOMAIN sources) = 2
    /\ budget <= MaxAllCmds - 3

\* C12: a TestEquality or GetAnswers that returns a response leaves the source
\* table, the question table, the tunables and the strategy as they were.
C12_UtilitiesReadOnly ==
    [][(last'.cmd \in {"TestEquality", "GetAnswers"} /\ response'.kind = "ok")
            => UNCHANGED <<sources, questions, tunables, equalifier>>]_vars

\* GetAnswers returned its list for a question that exerts an effect on a
\* believed source: a recompute would have changed both
C12_Witness ==
    /\ last.cmd = "GetAnswers" /\ response.kind = "ok"
    /\ Len(response.answers[1]) >= 1
    /\ FGt(questions[last.question].weight, Zero)
    /\ \E s \in DOMAIN sources : sources[s].strength = maximum_strength

\* the sources an answer can carry: a client's source, or TestEquality's "None"
AnswerSources == SourceNames \cup {"None"}

\* C13: under the exact strategy the distance of two answers is 0 when their
\* contents are equal and 1 otherwise, whatever their sources, every answer is
\* valid, and TestEquality returns that distance.
C13_ExactDistance ==
    /\ \A c1 \in Contents, c2 \in Contents, s1 \in AnswerSources, s2 \in AnswerSources :
            /\ ExactDistance(NewAnswer(c1, s1), NewAnswer(c2, s2))
                  = IF c1 = c2 THEN Zero ELSE One
            /\ ExactIsValidAnswer(NewAnswer(c1, s1))
    /\ (last.cmd = "TestEquality" /\ equalifier.kind = "exact") =>
            /\ response.kind = "ok"
            /\ response.distance = Some(IF last.answer1 = last.answer2 THEN Zero ELSE One)

\* TestEquality of two different contents returned 1 under the exact strategy
\* after other commands had run
C13_Witness ==
    /\ last.cmd = "TestEquality" /\ equalifier.kind = "exact"
    /\ last.answer1 # last.answer2
    /\ response.distance = Some(One)
    /\ questions # <<>>

\* the sources that own an answer of the question
Contributors(question) ==
    {question.answers[j].source : j \in 1..Len(question.answers)}

\* C14: a question all of whose answers come from one source has weight 0, and
\* a Set or GetAnswer on it leaves that source's quality and strength unchanged.
C14_SingleContributorNoFeedback ==
    [][\A n \in DOMAIN questions' :
            Cardinality(Contributors(questions'[n])) = 1 =>
                /\ questions'[n].weight = Zero
                /\ \A s \in Contributors(questions'[n]) \cap DOMAIN sources :
                        (last'.cmd \in {"Set", "GetAnswer"} /\ last'.question = n)
                            => sources'[s] = sources[s]]_vars

\* every quality of the table is a number: not NaN, not infinite
QualitiesDefined(srcs) ==
    \A s \in DOMAIN srcs : IsFin(srcs[s].quality) \/ IsOvf(srcs[s].quality)

\* C15: no source holds an undefined quality, neither in the table a command
\* leaves (after add-effect) nor in the table remove-effect of any question
\* produces from it (a source whose strength equals the weight is reset).
C15_QualityDefined ==
    /\ QualitiesDefined(sources)
    /\ \A n \in DOMAIN questions :
            QualitiesDefined(RemoveQuestionEffect(sources, questions[n]))

\* the index of the latest answer of source s among answers
LatestIndex(answers, s) ==
    CHOOSE j \in 1..Len(answers) :
        /\ answers[j].source = s
        /\ \A k \in 1..Len(answers) : answers[k].source = s => k <= j

\* the record is what its source submitted last to the question
IsCurrentContribution(question, a) ==
    question.answers[LatestIndex(question.answers, a.source)].content = a.content

\* C16: only the latest answer of a source counts: every record of a question's
\* believed-correct cluster is the current contribution of its source.
C16_LatestAnswerCounts ==
    \A n \in DOMAIN questions :
        \A i \in 1..Len(questions[n].correct_answers) :
            IsCurrentContribution(questions[n], questions[n].correct_answers[i])

\* the places (cluster, position in it) at which a content occurs
PlacesOf(answers, clusters, content) ==
    {p \in (1..Len(clusters)) \X (1..Len(answers)) :
        /\ p[2] <= Len(clusters[p[1]])
        /\ answers[clusters[p[1]][p[2]]].content = content}

\* place p comes before place r in cluster order, then in-cluster order
Before(p, r) == p[1] < r[1] \/ (p[1] = r[1] /\ p[2] < r[2])

\* the first place of a content that occurs
FirstPlace(answers, clusters, content) ==
    CHOOSE p \in PlacesOf(answers, clusters, content) :
        \A r \in PlacesOf(answers, clusters, content) : r = p \/ Before(p, r)

\* the list is what GetAnswers promises for the question and the clusters
IsAnswersList(list, question, clusters) ==
    /\ {list[i].answer : i \in 1..Len(list)} = ContentsOf(question.answers)
    /\ Len(list) = Cardinality(ContentsOf(question.answers))
    /\ \A i \in 1..Len(list) :
            list[i].confidence =
                ClusterConfidence(sources, question.answers,
                    clusters[FirstPlace(question.answers, clusters, list[i].answer)[1]])
    /\ \A i \in 1..Len(list), j \in 1..Len(list) :
            i < j => Before(FirstPlace(question.answers, clusters, list[i].answer),
                            FirstPlace(question.answers, clusters, list[j].answer))

\* C17: the list GetAnswers returns has one entry per distinct content of the
\* question's answers, none twice and none missing, each with the confidence
\* 1 - prod(1 - quality) of the first cluster that holds it, computed from the
\* current source qualities, in cluster order and then in-cluster order.
C17_GetAnswersList ==
    (last.cmd = "GetAnswers" /\ response.kind = "ok") =>
        IsAnswersList(response.answers[1], questions[last.question],
                      ComputeClusters(questions[last.question].answers, equalifier))

\* GetAnswers returned two entries for a question with three answers: a
\* repeated content was reported once
C17_Witness ==
    /\ last.cmd = "GetAnswers" /\ response.kind = "ok"
    /\ Len(response.answers[1]) = 2
    /\ Len(questions[last.question].answers) = 3

\* the step leaves every engine field but the one the key names as it was
OnlyTargetChanges(key) ==
    /\ key # "comparison_method" => equalifier' = equalifier
    /\ key # "default_source_quality" => default_source_quality' = default_source_quality
    /\ key # "initial_source_strength" =>
            initial_source_strength' = initial_source_strength
    /\ key # "maximum_strength" => maximum_strength' = maximum_strength
    /\ key # "log_weight_factor" => log_weight_factor' = log_weight_factor
    /\ quality_of_believed_sources' = quality_of_believed_sources

\* C18: a Configure that succeeds changes at most the engine field its key
\* names; every source keeps its quality and strength and every question its
\* answers, correct_answers, confidence and weight.
C18_ConfigureChangesOneField ==
    [][(last'.cmd = "Configure" /\ response'.kind = "ok") =>
            /\ OnlyTargetChanges(last'.config_key)
            /\ sources' = sources
            /\ questions' = questions]_vars

\* maximum_strength was just lowered below the strength a source already has,
\* and that source and the question that feeds it are as they were
C18_Witness ==
    /\ last.cmd = "Configure" /\ response.kind = "ok"
    /\ last.config_key = "maximum_strength"
    /\ \E s \in DOMAIN sources : FGt(sources[s].strength, maximum_strength)
    /\ \E n \in DOMAIN questions : FGt(questions[n].weight, Zero)

\* the source table a Set or GetAnswer command starts from
PhaseZeroSources(cmd) ==
    IF cmd.cmd = "Set"
    THEN CreateSourceIfNotExists(sources, cmd.source, default_source_quality,
                                 initial_source_strength)
    ELSE sources

\* the question record before the command
PhaseZeroQuestion(cmd) == CreateQuestionIfNotExists(questions, cmd.question)[cmd.question]

\* phase 1: remove-effect with the answers, correct_answers and weight of before
PhaseOneSources(cmd) == RemoveQuestionEffect(PhaseZeroSources(cmd), PhaseZeroQuestion(cmd))

\* phase 2: the append of a Set, then the recompute from the sources of phase 1
PhaseTwoQuestion(cmd, removed) ==
    ComputeQuestionAnswers(removed,
        IF cmd.cmd = "Set"
        THEN [PhaseZeroQuestion(cmd) EXCEPT
                 !.answers = Append(@, NewAnswer(cmd.answer, cmd.source))]
        ELSE PhaseZeroQuestion(cmd),
        equalifier, log_weight_factor)

\* phase 3: add-effect over all answers with the new correct set and weight
PhaseThreeSources(removed, recomputed) ==
    AddQuestionEffect(removed, recomputed, maximum_strength)

\* the step ends with the question phase 2 gives and the sources phase 3 gives
EndsAsPhases(cmd, removed, recomputed) ==
    /\ questions'[cmd.question] = recomputed
    /\ sources' = PhaseThreeSources(removed, recomputed)

\* C19: one Set or GetAnswer step is remove-effect on the question as it was,
\* then the append (Set only) and the recompute from the sources remove-effect
\* left, then add-effect with the recomputed record: the step ends in the
\* state these three phases give, with no state in between.
C19_ThreePhases ==
    [][(last'.cmd \in {"Set", "GetAnswer"} /\ response'.kind = "ok") =>
            \E removed \in {PhaseOneSources(last')} :
            \E recomputed \in {PhaseTwoQuestion(last', removed)} :
                EndsAsPhases(last', removed, recomputed)]_vars

\* a Set changed the weight of a question that already exerted an effect on a
\* believed source: each phase had something to do
C19_Witness ==
    /\ last.cmd = "Set"
    /\ Len(questions[last.question].answers) >= 3
    /\ FGt(questions[last.question].weight, Zero)
    /\ \E s \in Contributors(questions[last.question]) :
            /\ sources[s].quality # DefaultSourceQuality
            /\ s # last.source

\* cluster k has the greatest confidence, and no cluster before it has as much;
\* an undefined (NaN) confidence is the greatest only when every one is undefined
IsGreatestLowest(confidences, k) ==
    /\ \A j \in 1..Len(confidences) :
            /\ ~FGt(confidences[j], confidences[k])
            /\ IsNaN(confidences[k]) => IsNaN(confidences[j])
    /\ \A j \in 1..(k - 1) : confidences[j] # confidences[k]

\* the record is what the claim promises for the clusters and their confidences
IsRecomputed(question, clusters, confidences) ==
    \E k \in 1..Len(clusters) :
        /\ IsGreatestLowest(confidences, k)
        /\ question.correct_answers = MembersFrom(question.answers, clusters[k], 1)
        /\ question.confidence = confidences[k]
        /\ Len(clusters[k]) <= 1 => question.weight = Zero
        /\ FGt(question.weight, Zero) => Len(clusters[k]) >= 2

\* the claim for the clusters of the record, with the confidences that the
\* sources left by remove-effect give them
IsRecomputedFrom(question, clusters, removed) ==
    IsRecomputed(question, clusters,
                 ConfidencesFrom(removed, question.answers, clusters, 1))

\* C20: after the recompute of a Set or GetAnswer, correct_answers is the
\* membership, in insertion order, of the cluster of greatest confidence (the
\* lowest index among equals), confidence is that cluster's confidence, and
\* weight is 0 for a cluster of one and positive only for one of two or more.
C20_CorrectClusterIsArgmax ==
    [][(last'.cmd \in {"Set", "GetAnswer"} /\ response'.kind = "ok") =>
            IsRecomputedFrom(questions'[last'.question],
                             ComputeClusters(questions'[last'.question].answers,
                                             equalifier),
                             PhaseOneSources(last'))]_vars

\* the number of answers with content c
CountOf(answers, c) == Cardinality({j \in 1..Len(answers) : answers[j].content = c})

\* no source owns two of the answers
OneAnswerEach(answers) ==
    \A i, j \in 1..Len(answers) : answers[i].source = answers[j].source => i = j

\* content c is given by strictly more sources than any other content
StrictMajority(answers, c) ==
    \A d \in ContentsOf(answers) \ {c} : CountOf(answers, c) > CountOf(answers, d)

\* every contributor has quality p in the source table srcs
SameQuality(srcs, question, p) ==
    \A s \in Contributors(question) : srcs[s].quality = p

RECURSIVE Power(_, _)
Power(x, n) == IF n = 0 THEN One ELSE FMul(Power(x, n - 1), x)

\* the confidence of n independent sources of quality p that agree
AgreeingConfidence(p, n) == FSub(One, Power(FSub(One, p), n))

\* question has content c as its believed answer, more confident than the
\* cluster of any other content would be with sources of quality p
MajorityBelieved(question, c, p) ==
    /\ Len(question.correct_answers) = CountOf(question.answers, c)
    /\ \A j \in 1..Len(question.correct_answers) : question.correct_answers[j].content = c
    /\ \A d \in ContentsOf(question.answers) \ {c} :
            FGt(question.confidence, AgreeingConfidence(p, CountOf(question.answers, d)))

\* C21: under the exact strategy, when every contributor of the question has
\* the same quality p, 0 < p < 1, in the source table the recompute reads and
\* owns one answer, the content with strictly more answers than any other is
\* the believed answer (the one GetAnswer returns), and the stored confidence
\* is strictly above the cluster confidence of every other content.
C21_MajorityWins ==
    [][(last'.cmd \in {"Set", "GetAnswer"} /\ response'.kind = "ok"
            /\ equalifier = ExactEqualifier) =>
            \E removed \in {PhaseOneSources(last')} :
            \E question \in {questions'[last'.question]} :
            \A c \in ContentsOf(question.answers) :
            \A p \in {removed[s].quality : s \in Contributors(question)} :
                (/\ SameQuality(removed, question, p)
                 /\ FGt(p, Zero) /\ FLt(p, One)
                 /\ OneAnswerEach(question.answers)
                 /\ StrictMajority(question.answers, c)) =>
                        /\ MajorityBelieved(question, c, p)
                        /\ last'.cmd = "GetAnswer" => response'.answer = Some(c)]_vars

\* GetAnswer returned the content two of three sources gave, the third source
\* having answered first with another content
C21_Witness ==
    /\ last.cmd = "GetAnswer" /\ response.kind = "ok"
    /\ "q1" \in DOMAIN questions
    /\ Len(questions["q1"].answers) = 3
    /\ OneAnswerEach(questions["q1"].answers)
    /\ \E c \in Contents :
            /\ questions["q1"].answers[1].content # c
            /\ CountOf(questions["q1"].answers, c) = 2
            /\ response.answer = Some(c)

\* the sum of |a_i - b_i| over the first n components
RECURSIVE L1Raw(_, _, _)
L1Raw(av, bv, n) ==
    IF n = 0 THEN Zero ELSE FAdd(L1Raw(av, bv, n - 1), FAbs(FSub(av[n], bv[n])))

\* the share of the components in which the vectors differ
PercentRaw(av, bv) ==
    Rat(Cardinality({i \in 1..Len(av) : av[i] # bv[i]}), Len(av))

\* what the distance of two vectors of one length is to be, L1 and
\* percent_not_equal; for L2 only the range, the zero and the symmetry are fixed
IsClampedRaw(d, eq, av, bv) ==
    /\ eq.diff_fn = "l1" => d = Clamp01(FDiv(L1Raw(av, bv, Len(av)), eq.allowed_difference))
    /\ eq.diff_fn = "percent_not_equal" =>
            d = Clamp01(FDiv(PercentRaw(av, bv), eq.allowed_difference))

\* the distance d of vectors av and bv under eq, and the validity of av, are
\* what the numeric-vector strategy promises
IsVecDistance(d, eq, av, bv, valid) ==
    /\ Len(av) # Len(bv) => d = One
    /\ Len(av) = Len(bv) => IsClampedRaw(d, eq, av, bv)
    /\ FGe(d, Zero) /\ FLe(d, One)
    /\ av = bv => d = Zero
    /\ d = NumericVecDistanceOf(eq, bv, av)
    /\ valid <=> Len(av) = eq.vec_length

\* C22: under the numeric-vector strategy with allowed_difference > 0 the
\* distance is 1 for vectors of different lengths, clamp(raw / allowed_difference,
\* 0, 1) otherwise (raw the L1 sum, or the share of differing positions), always
\* within [0,1], 0 for identical vectors and symmetric; an answer is valid iff
\* its vector has vec_length components.
C22_VecDistance ==
    (/\ last.cmd = "TestEquality" /\ response.kind = "ok"
     /\ equalifier.kind = "numeric_vec"
     /\ FGt(equalifier.allowed_difference, Zero)) =>
        IsVecDistance(response.distance[1], equalifier,
                      SplitToF64Vec(last.answer1), SplitToF64Vec(last.answer2),
                      NumericVecIsValidAnswer(equalifier, NewAnswer(last.answer1, "None")))

\* every component of the vector is a finite number
FiniteVec(vec) == \A i \in 1..Len(vec) : IsFin(vec[i])

\* the same promise, for vectors of finite numbers only
VecDistanceOfFinite ==
    (/\ last.cmd = "TestEquality" /\ response.kind = "ok"
     /\ equalifier.kind = "numeric_vec"
     /\ FGt(equalifier.allowed_difference, Zero)
     /\ FiniteVec(SplitToF64Vec(last.answer1))
     /\ FiniteVec(SplitToF64Vec(last.answer2))) =>
        IsVecDistance(response.distance[1], equalifier,
                      SplitToF64Vec(last.answer1), SplitToF64Vec(last.answer2),
                      NumericVecIsValidAnswer(equalifier, NewAnswer(last.answer1, "None")))

\* the weight a question books on source s: once per answer record s owns,
\* or only per record whose content is among the correct answers
RECURSIVE BookedFrom(_, _, _, _)
BookedFrom(question, s, only_correct, j) ==
    IF j = 0 THEN Zero
    ELSE IF /\ question.answers[j].source = s
            /\ only_correct => question.answers[j].content \in ContentsOf(question.correct_answers)
    THEN FAdd(BookedFrom(question, s, only_correct, j - 1), question.weight)
    ELSE BookedFrom(question, s, only_correct, j - 1)

\* the same, summed over the questions named
RECURSIVE BookedOver(_, _, _)
BookedOver(names, s, only_correct) ==
    IF names = {} THEN Zero
    ELSE LET n == CHOOSE m \in names : TRUE
         IN FAdd(BookedFrom(questions[n], s, only_correct, Len(questions[n].answers)),
                 BookedOver(names \ {n}, s, only_correct))

\* no strength has reached the cap
BelowCap == \A s \in DOMAIN sources : FLt(sources[s].strength, maximum_strength)

\* C23: with no Believe and no Configure, and no strength at maximum_strength,
\* after every command each source's strength is initial_source_strength plus
\* the current weight of every answer record it owns, and its quality times its
\* strength is default_source_quality times initial_source_strength plus the
\* weight of each of those records whose content is currently believed correct.
C23_Accounting ==
    BelowCap =>
        \A s \in DOMAIN sources :
            /\ sources[s].strength =
                    FAdd(initial_source_strength, BookedOver(DOMAIN questions, s, FALSE))
            /\ FMul(sources[s].quality, sources[s].strength) =
                    FAdd(FMul(default_source_quality, initial_source_strength),
                         BookedOver(DOMAIN questions, s, TRUE))

\* a source is booked by two questions of positive weight at once
C23_Witness ==
    /\ response.kind = "ok" /\ BelowCap
    /\ DOMAIN questions = {"q1", "q2"}
    /\ FGt(questions["q1"].weight, Zero) /\ FGt(questions["q2"].weight, Zero)
    /\ \E s \in DOMAIN sources :
            s \in Contributors(questions["q1"]) \cap Contributors(questions["q2"])

\* the step writes no question record but q's
OnlyQuestion(q) ==
    /\ DOMAIN questions' \subseteq DOMAIN questions \cup {q}
    /\ \A n \in DOMAIN questions \ {q} : questions'[n] = questions[n]

\* the step writes no source but those named
OnlySources(names) ==
    /\ DOMAIN sources' \subseteq DOMAIN sources \cup names
    /\ \A s \in DOMAIN sources \ names : sources'[s] = sources[s]

\* the step does nothing but create source s when it is not there yet
OnlyCreates(s) ==
    /\ questions' = questions
    /\ s \in DOMAIN sources => sources' = sources
    /\ s \notin DOMAIN sources =>
            sources' = (s :> [quality |-> default_source_quality,
                              strength |-> initial_source_strength]) @@ sources

\* C24: Set and GetAnswer on q write no question record but q's and no source
\* but those that own an answer of q (the new one included); Believe(s) writes
\* source s only and no question record; GetSource(s) writes nothing, except
\* that it creates s when s is not there.
C24_LocalWrites ==
    [][/\ last'.cmd \in {"Set", "GetAnswer"} =>
            /\ OnlyQuestion(last'.question)
            /\ OnlySources(Contributors(questions'[last'.question]))
       /\ last'.cmd = "Believe" =>
            /\ questions' = questions
            /\ OnlySources({last'.source})
       /\ last'.cmd = "GetSource" => OnlyCreates(last'.source)]_vars

\* a Set on q1 that carries weight, with q2 answered and a source that owns no
\* answer of q1 in the table
C24_Witness ==
    /\ last.cmd = "Set" /\ last.question = "q1" /\ response.kind = "ok"
    /\ DOMAIN questions = {"q1", "q2"}
    /\ Len(questions["q2"].answers) > 0
    /\ FGt(questions["q1"].weight, Zero)
    /\ DOMAIN sources \ Contributors(questions["q1"]) # {}

\* the quality source s has from every question but q: what the other
\* questions booked on it, over the strength they gave it
LeaveOneOutQuality(s, q) ==
    FDiv(FAdd(FMul(default_source_quality, initial_source_strength),
              BookedOver(DOMAIN questions \ {q}, s, TRUE)),
         FAdd(initial_source_strength, BookedOver(DOMAIN questions \ {q}, s, FALSE)))

\* the quality source s has in the table now
CurrentQuality(s, q) == sources[s].quality

\* 1 - prod(1 - quality) over the believed answers of the question among its
\* first j answers, the quality of a source taken by QualityOf(source, q)
RECURSIVE BelievedWrong(_, _, _, _)
BelievedWrong(QualityOf(_, _), question, q, j) ==
    IF j = 0 THEN One
    ELSE IF question.answers[j].content \in ContentsOf(question.correct_answers)
    THEN FMul(BelievedWrong(QualityOf, question, q, j - 1),
              FSub(One, QualityOf(question.answers[j].source, q)))
    ELSE BelievedWrong(QualityOf, question, q, j - 1)

BelievedConfidence(QualityOf(_, _), question, q) ==
    FSub(One, BelievedWrong(QualityOf, question, q, Len(question.answers)))

\* the confidence the list of GetAnswers gives for the content
ListedFor(list, content) ==
    {list[k].confidence : k \in {i \in 1..Len(list) : list[i].answer = content}}

\* C25: the confidence Set stores and GetAnswer returns for q is computed from
\* source qualities that hold none of q's own effect (with no Believe and no
\* capping: the qualities the other questions alone give), while GetAnswers(q)
\* computes the confidence of the believed answer from the qualities of the
\* table as it is, q's effect included.
C25_LeaveOneOut ==
    [][/\ (last'.cmd \in {"Set", "GetAnswer"} /\ response'.kind = "ok") =>
            \E c \in {BelievedConfidence(LeaveOneOutQuality, questions'[last'.question],
                                         last'.question)} :
                /\ questions'[last'.question].confidence = c
                /\ last'.cmd = "GetAnswer" => response'.confidence = Some(c)
       /\ (last'.cmd = "GetAnswers" /\ response'.kind = "ok"
                /\ Len(questions[last'.question].correct_answers) > 0) =>
            ListedFor(response'.answers[1],
                      questions[last'.question].correct_answers[1].content) =
                {BelievedConfidence(CurrentQuality, questions[last'.question],
                                    last'.question)}]_vars

\* GetAnswers lists the believed answer with a confidence other than the one
\* stored for the question, which GetAnswer returns
C25_Witness ==
    /\ last.cmd = "GetAnswers" /\ response.kind = "ok"
    /\ Len(questions[last.question].correct_answers) > 0
    /\ Cardinality(Contributors(questions[last.question])) = 2
    /\ questions[last.question].confidence \notin
            ListedFor(response.answers[1],
                      questions[last.question].correct_answers[1].content)

====
